---- MODULE Spec2Model ----
(***************************************************************************)
(* Device registry, telemetry buffers and message dispatch of the IoT      *)
(* dashboard (src/device_manager.py, src/dashboard_multidevice.py).        *)
(*                                                                         *)
(* The devices table of the SQLite store is a sequence of rows in rowid    *)
(* order; device_data is the defaultdict of bounded deques; every handler  *)
(* (on_message, the UI callbacks, the heartbeat thread's sweep) is one     *)
(* action, its registry statement executed under db_lock.  Time is a       *)
(* clock in seconds that only the Tick action advances.  The database     *)
(* file takes every write in Spec; SpecStore lets it refuse them.  The UI  *)
(* callbacks that only read are actions of SpecList and SpecSections.      *)
(***************************************************************************)
EXTENDS Integers, Sequences, FiniteSets, TLC

VARIABLES
    now,                \* datetime.now(), seconds since the process started
    devices,            \* rows of table devices, in rowid order
    device_data,        \* defaultdict: device_id -> three deques
    sensor_data,        \* rows of table sensor_data (append only)
    control_commands,   \* rows of table control_commands (append only)
    mqtt_connected,     \* module flag set by on_connect / on_disconnect
    published,          \* messages handed to mqtt_client.publish
    last_error,         \* the last error line printed by on_message, the publisher or a
                        \* write the database file refused ("" if none)
    pushed,             \* history: every sample appended per device, in order
    liveness,           \* history: how each device last went offline / came back
    listed,             \* the list update_device_list last got from get_all_devices
    charted,            \* the lists update_device_sections last built from device_data
    db_fault,           \* what the database file refuses: nothing, sensor_data rows, every write
    pc,                 \* per thread: the statement it is about to execute
    db_lock,            \* device_manager.db_lock: the thread inside, or None
    data_lock,          \* dashboard data_lock: the thread inside, or None
    frame,              \* per thread: the local variables of the call it is in
    wake                \* heartbeat thread: when its time.sleep(30) returns

vars == <<now, devices, device_data, sensor_data, control_commands,
          mqtt_connected, published, last_error, pushed, liveness,
          listed, charted, db_fault, pc, db_lock, data_lock, frame, wake>>

\* the threads' positions, locks and locals: they change only where a
\* handler is taken apart into its statements
threads == <<pc, db_lock, data_lock, frame, wake>>

\* what no message handler, sweep or publish writes
surroundings == <<listed, charted, db_fault, threads>>

----------------------------------------------------------------------------
(* Bounds of the model *)

MaxTime == 120
ClockStep == 60
MaxRows == 2
MaxSamples == 1
MaxCommands == 1
MaxBufferPushes == 102
MaxFeed == 3
MaxPushes == 2
Pace == 30
Horizon == 150

(* Program constants *)

MAX_DATA_POINTS == 100
HEARTBEAT_TIMEOUT == 60
HEARTBEAT_INTERVAL == 30

None == "<None>"

DeviceIds == {"d1", "d2"}

REGISTER_TOPIC == <<"iot", "dashboard", "register">>

----------------------------------------------------------------------------
(* Python / SQL helpers *)

\* dict.get(key, default)
Get(d, key, default) == IF key \in DOMAIN d THEN d[key] ELSE default

\* SQL "device_id = ?": NULL equals nothing, not even NULL
SqlEq(column, param) == column # None /\ param # None /\ column = param

RowOf(rows, device_id) ==
    LET hits == {i \in DOMAIN rows : SqlEq(rows[i].device_id, device_id)}
    IN  IF hits = {} THEN None ELSE rows[CHOOSE i \in hits : TRUE]

HasRecord(rows, device_id) ==
    \E i \in DOMAIN rows : SqlEq(rows[i].device_id, device_id)

StatusOf(rows, device_id) ==
    IF HasRecord(rows, device_id) THEN RowOf(rows, device_id).status ELSE "absent"

SeenOf(rows, device_id) ==
    IF HasRecord(rows, device_id) THEN RowOf(rows, device_id).last_seen ELSE -1

----------------------------------------------------------------------------
(* DeviceManager: each operator is the effect of one method on the table   *)
(* and the value it returns / whether it printed an error.                 *)

\* register_device with the status column left to the schema's DEFAULT 'offline'
register_device_default_status(rows, device_id, device_name, device_type, location, capabilities, t) ==
    IF device_name = None \/ device_type = None
    THEN [rows |-> rows, ret |-> "False", error |-> TRUE]
    ELSE [rows |-> Append(
                     SelectSeq(rows, LAMBDA r : ~SqlEq(r.device_id, device_id)),
                     [device_id     |-> device_id,
                      device_name   |-> device_name,
                      device_type   |-> device_type,
                      location      |-> location,
                      capabilities  |-> capabilities,
                      registered_at |-> t,
                      last_seen     |-> t,
                      status        |-> "offline"]),
          ret |-> "True", error |-> FALSE]

\* INSERT OR REPLACE INTO devices (...) VALUES (...): a row whose primary
\* key equals the new one is deleted first; a NULL primary key conflicts
\* with nothing; NOT NULL columns abort the statement (IntegrityError).
\* capabilities is the set of capability names ("capabilities or {}").
register_device(rows, device_id, device_name, device_type, location, capabilities, t) ==
    IF device_name = None \/ device_type = None
    THEN [rows |-> rows, ret |-> "False", error |-> TRUE]
    ELSE [rows |-> Append(
                     SelectSeq(rows, LAMBDA r : ~SqlEq(r.device_id, device_id)),
                     [device_id     |-> device_id,
                      device_name   |-> device_name,
                      device_type   |-> device_type,
                      location      |-> location,
                      capabilities  |-> capabilities,
                      registered_at |-> t,
                      last_seen     |-> t,
                      status        |-> "online"]),
          ret |-> "True", error |-> FALSE]

\* unregister_device with DELETE FROM devices and no WHERE clause
unregister_device_every_row(rows, device_id) ==
    [rows |-> <<>>, ret |-> "True", error |-> FALSE]

\* DELETE FROM devices WHERE device_id = ?
unregister_device(rows, device_id) ==
    [rows |-> SelectSeq(rows, LAMBDA r : ~SqlEq(r.device_id, device_id)),
     ret |-> "True", error |-> FALSE]

\* update_device_status without its WHERE clause
update_device_status_every_row(rows, device_id, status, t) ==
    [rows |-> [i \in DOMAIN rows |->
                 [rows[i] EXCEPT !.status = status, !.last_seen = t]],
     ret |-> "None", error |-> FALSE]

\* update_device_status with "SET status = ?" only
update_device_status_keeps_last_seen(rows, device_id, status, t) ==
    [rows |-> [i \in DOMAIN rows |->
                 IF SqlEq(rows[i].device_id, device_id)
                 THEN [rows[i] EXCEPT !.status = status]
                 ELSE rows[i]],
     ret |-> "None", error |-> FALSE]

\* update_device_status with a timestamp taken when the process started
update_device_status_start_time(rows, device_id, status, t) ==
    [rows |-> [i \in DOMAIN rows |->
                 IF SqlEq(rows[i].device_id, device_id)
                 THEN [rows[i] EXCEPT !.status = status, !.last_seen = 0]
                 ELSE rows[i]],
     ret |-> "None", error |-> FALSE]

\* UPDATE devices SET status = ?, last_seen = ? WHERE device_id = ?
update_device_status(rows, device_id, status, t) ==
    [rows |-> [i \in DOMAIN rows |->
                 IF SqlEq(rows[i].device_id, device_id)
                 THEN [rows[i] EXCEPT !.status = status, !.last_seen = t]
                 ELSE rows[i]],
     ret |-> "None", error |-> FALSE]

\* the collation order of the device names in use
NameRank(name) ==
    CASE name = "Sensor A" -> 1 [] name = "Sensor B" -> 2 [] OTHER -> 0

RECURSIVE OrderByName(_)
\* ORDER BY device_name, rows of equal name in rowid order
OrderByName(rows) ==
    IF rows = <<>> THEN <<>>
    ELSE LET least == CHOOSE i \in DOMAIN rows :
                        \A j \in DOMAIN rows :
                            \/ NameRank(rows[i].device_name) < NameRank(rows[j].device_name)
                            \/ /\ NameRank(rows[i].device_name) = NameRank(rows[j].device_name)
                               /\ i <= j
         IN  <<rows[least]>> \o
             OrderByName([k \in 1..(Len(rows) - 1) |->
                            IF k < least THEN rows[k] ELSE rows[k + 1]])

\* get_all_devices with SELECT * FROM devices and no ORDER BY
get_all_devices_rowid_order(rows) == rows

\* SELECT * FROM devices ORDER BY device_name, each row made a dict
get_all_devices(rows) == OrderByName(rows)

\* the comparison turned round: WHERE last_seen > cutoff_time AND status = 'online'
Stale_newer_than_cutoff(r, timeout_seconds, t) ==
    r.last_seen > t - timeout_seconds /\ r.status = "online"

\* WHERE last_seen < cutoff_time AND status = 'online'
Stale(r, timeout_seconds, t) ==
    r.last_seen < t - timeout_seconds /\ r.status = "online"

\* a sweep that also stamps the rows it sets offline:
\* UPDATE devices SET status = 'offline', last_seen = ? WHERE ...
check_device_heartbeats_stamps_last_seen(rows, timeout_seconds, t) ==
    [rows |-> [i \in DOMAIN rows |->
                 IF rows[i].last_seen < t - timeout_seconds /\ rows[i].status = "online"
                 THEN [rows[i] EXCEPT !.status = "offline", !.last_seen = t]
                 ELSE rows[i]],
     ret |-> "None", error |-> FALSE]

\* the sweep without its test of last_seen:
\* UPDATE devices SET status = 'offline' WHERE status = 'online'
check_device_heartbeats_every_online(rows, timeout_seconds, t) ==
    [rows |-> [i \in DOMAIN rows |->
                 IF rows[i].status = "online"
                 THEN [rows[i] EXCEPT !.status = "offline"]
                 ELSE rows[i]],
     ret |-> "None", error |-> FALSE]

\* UPDATE devices SET status = 'offline' WHERE last_seen < ? AND status = 'online'
check_device_heartbeats(rows, timeout_seconds, t) ==
    [rows |-> [i \in DOMAIN rows |->
                 IF Stale(rows[i], timeout_seconds, t)
                 THEN [rows[i] EXCEPT !.status = "offline"]
                 ELSE rows[i]],
     ret |-> "None", error |-> FALSE]

----------------------------------------------------------------------------
(* Telemetry buffers *)

\* a plain list in place of the bounded deque
deque_append_unbounded(q, x) == Append(q, x)

\* deque(maxlen=MAX_DATA_POINTS).append(x): a full deque drops its oldest item
deque_append(q, x) ==
    IF Len(q) >= MAX_DATA_POINTS THEN Append(Tail(q), x) ELSE Append(q, x)

\* the value the defaultdict's factory makes on first access
NewBuffers == [temperature |-> <<>>, humidity |-> <<>>, timestamps |-> <<>>]

\* device_data[device_id] ... .append(...), the three appends made under data_lock
push_sample(dd, device_id, temperature, humidity, t) ==
    LET cur == IF device_id \in DOMAIN dd THEN dd[device_id] ELSE NewBuffers
        new == [timestamps  |-> deque_append(cur.timestamps, t),
                temperature |-> deque_append(cur.temperature, temperature),
                humidity    |-> deque_append(cur.humidity, humidity)]
    IN  [k \in DOMAIN dd \cup {device_id} |-> IF k = device_id THEN new ELSE dd[k]]

\* a read that indexes device_data[device_id] without asking whether the
\* key is there: the defaultdict makes the entry
read_buffers_by_index(dd, device_id) ==
    LET made == [k \in DOMAIN dd \cup {device_id} |->
                    IF k \in DOMAIN dd THEN dd[k] ELSE NewBuffers]
    IN  [device_data |-> made,
         times |-> made[device_id].timestamps,
         temps |-> made[device_id].temperature,
         hums  |-> made[device_id].humidity]

\* with data_lock: if device_id in device_data and len(...) > 0:
\*     times = list(...); temps = list(...); hums = list(...)
\* else: times = []; temps = []; hums = []
read_buffers(dd, device_id) ==
    IF device_id \in DOMAIN dd /\ Len(dd[device_id].timestamps) > 0
    THEN [device_data |-> dd,
          times |-> dd[device_id].timestamps,
          temps |-> dd[device_id].temperature,
          hums  |-> dd[device_id].humidity]
    ELSE [device_data |-> dd, times |-> <<>>, temps |-> <<>>, hums |-> <<>>]

\* INSERT INTO sensor_data (temperature, humidity, device_id)
log_sensor_data(table, temperature, humidity, device_id) ==
    Append(table, [temperature |-> temperature, humidity |-> humidity,
                   device_id |-> device_id])

\* INSERT INTO control_commands (command_type, command_value, device_id)
log_control_command(table, command_type, command_value, device_id) ==
    Append(table, [command_type |-> command_type, command_value |-> command_value,
                   device_id |-> device_id])

----------------------------------------------------------------------------
(* The database file.  A write it refuses raises inside the method, whose   *)
(* except clause prints a line and returns; the table is as before.        *)

\* the database file refuses a write to this table
Refused(table) == db_fault \in {table, "database"}

\* the outcome of a DeviceManager method that writes the devices table
Store(rows, result, line, failed_ret) ==
    IF Refused("devices")
    THEN [rows |-> rows, ret |-> failed_ret, error |-> TRUE, printed |-> line]
    ELSE [rows |-> result.rows, ret |-> result.ret, error |-> result.error,
          printed |-> ""]

\* the error line on the console after a method has run
Console(r) == IF r.printed = "" THEN last_error ELSE r.printed

----------------------------------------------------------------------------
(* History of each device's liveness, kept for the properties only:        *)
(* "swept" after a sweep set it offline, "told" after a Status event took  *)
(* it out of online, "revived" after a Sensors event brought a swept       *)
(* device back online, "removed" after unregister_device deleted its       *)
(* record, "none" otherwise.                                               *)

Track(op, device_id, rows) ==
    [d \in DeviceIds |->
        LET before == StatusOf(devices, d)
            after  == StatusOf(rows, d)
        IN  IF op = "sweep" /\ before = "online" /\ after = "offline" THEN "swept"
            ELSE IF d # device_id THEN liveness[d]
            ELSE IF op = "status" /\ before = "online" /\ after \notin {"online", "absent"}
                 THEN "told"
            ELSE IF op = "sensors" /\ liveness[d] = "swept" /\ after = "online"
                 THEN "revived"
            ELSE IF op = "sensors" /\ after = before /\ after # "online" THEN liveness[d]
            ELSE IF op = "unregister" /\ before # "absent" /\ after = "absent"
                 THEN "removed"
            ELSE IF op = "unregister" THEN liveness[d]
            ELSE "none"]

----------------------------------------------------------------------------
(* MQTT message handler *)

\* a decoder that turns undecodable bytes into an empty object
json_loads_lenient(raw) ==
    [ok |-> TRUE, is_dict |-> raw.kind # "scalar", obj |-> raw.obj]

\* json.loads(msg.payload.decode()): raises on bytes that are no JSON text;
\* a JSON text that is no object decodes to a value without .get
json_loads(raw) ==
    [ok |-> raw.kind # "garbage", is_dict |-> raw.kind = "object", obj |-> raw.obj]

\* except Exception as e: print(f"Error processing message: {e}")
MessageError(e) ==
    /\ last_error' = e
    /\ UNCHANGED <<now, devices, device_data, sensor_data, control_commands,
                   mqtt_connected, published, pushed, liveness, surroundings>>

on_message(topic, raw) ==
    LET dec == json_loads(raw)
        payload == dec.obj
    IN
    IF ~dec.ok THEN MessageError("JSONDecodeError")
    ELSE IF topic = REGISTER_TOPIC THEN
        IF ~dec.is_dict THEN MessageError("AttributeError")
        ELSE
        LET device_id == Get(payload, "device_id", None)
            r == Store(devices,
                       register_device(devices, device_id,
                                       Get(payload, "device_name", None),
                                       Get(payload, "device_type", None),
                                       Get(payload, "location", ""),
                                       Get(payload, "capabilities", {}), now),
                       "Error registering device", "False")
        IN  /\ devices' = r.rows
            /\ liveness' = Track("register", device_id, r.rows)
            /\ last_error' = Console(r)
            /\ UNCHANGED <<now, device_data, sensor_data, control_commands,
                           mqtt_connected, published, pushed, surroundings>>
    ELSE IF Len(topic) >= 4 /\ topic[4] = "sensors" THEN
        IF ~dec.is_dict THEN MessageError("AttributeError")
        ELSE
        LET device_id == topic[3]
            temperature == Get(payload, "temperature", 0)
            humidity == Get(payload, "humidity", 0)
            r == Store(devices,
                       update_device_status(devices, device_id, "online", now),
                       "Error updating device status", "None")
        IN  /\ device_data' = push_sample(device_data, device_id, temperature, humidity, now)
            /\ sensor_data' =
                  IF Refused("sensor_data") THEN sensor_data
                  ELSE log_sensor_data(sensor_data, temperature, humidity, device_id)
            /\ devices' = r.rows
            /\ pushed' = [pushed EXCEPT ![device_id] =
                             Append(@, [timestamp |-> now, temperature |-> temperature,
                                        humidity |-> humidity])]
            /\ liveness' = Track("sensors", device_id, r.rows)
            /\ last_error' =
                  IF r.printed # "" THEN r.printed
                  ELSE IF Refused("sensor_data") THEN "Database logging error"
                  ELSE last_error
            /\ UNCHANGED <<now, control_commands, mqtt_connected, published,
                           surroundings>>
    ELSE IF Len(topic) >= 4 /\ topic[4] = "status" THEN
        IF ~dec.is_dict THEN MessageError("AttributeError")
        ELSE
        LET device_id == topic[3]
            status == Get(payload, "status", "online")
            r == Store(devices,
                       update_device_status(devices, device_id, status, now),
                       "Error updating device status", "None")
        IN  /\ devices' = r.rows
            /\ liveness' = Track("status", device_id, r.rows)
            /\ last_error' = Console(r)
            /\ UNCHANGED <<now, device_data, sensor_data, control_commands,
                           mqtt_connected, published, pushed, surroundings>>
    ELSE
        UNCHANGED vars

----------------------------------------------------------------------------
(* Connection callbacks and the command publisher *)

\* rc == 0 means the broker accepted the connection
on_connect(rc) ==
    /\ mqtt_connected' = (rc = 0)
    /\ UNCHANGED <<now, devices, device_data, sensor_data, control_commands,
                   published, last_error, pushed, liveness, surroundings>>

on_disconnect ==
    /\ mqtt_connected' = FALSE
    /\ UNCHANGED <<now, devices, device_data, sensor_data, control_commands,
                   published, last_error, pushed, liveness, surroundings>>

\* what mqtt_client.publish(...).rc can be: the send was queued, or refused
PublishRc == {"MQTT_ERR_SUCCESS", "MQTT_ERR_NO_CONN"}

\* publish_control_command that writes the command record before it looks
\* at the connection flag
publish_command_logs_first(sent, log, connected, device_id, command_type, value, t, rc) ==
    IF connected
    THEN [published |-> Append(sent,
                [topic |-> <<"iot", "dashboard", device_id, "control">>,
                 payload |-> [command |-> command_type, value |-> value,
                              timestamp |-> t]]),
          control_commands |-> log_control_command(log, command_type, value, device_id),
          ret |-> "True", printed |-> ""]
    ELSE [published |-> sent,
          control_commands |-> log_control_command(log, command_type, value, device_id),
          ret |-> "False", printed |-> "MQTT not connected"]

\* the body of publish_control_command: what is handed to mqtt_client.publish,
\* the control_commands table, the value returned and the error line printed.
\* rc is the result of mqtt_client.publish, which the code does not read.
\* mqtt_client is set by setup_mqtt before any callback can run.
publish_command(sent, log, connected, device_id, command_type, value, t, rc) ==
    IF connected
    THEN [published |-> Append(sent,
                [topic |-> <<"iot", "dashboard", device_id, "control">>,
                 payload |-> [command |-> command_type, value |-> value,
                              timestamp |-> t]]),
          control_commands |-> log_control_command(log, command_type, value, device_id),
          ret |-> "True", printed |-> ""]
    ELSE [published |-> sent, control_commands |-> log,
          ret |-> "False", printed |-> "MQTT not connected"]

publish_control_command(device_id, command_type, value) ==
    \E rc \in PublishRc :
        LET r == publish_command(published, control_commands, mqtt_connected,
                                 device_id, command_type, value, now, rc)
        IN  /\ published' = r.published
            /\ control_commands' =
                  IF Refused("control_commands") THEN control_commands
                  ELSE r.control_commands
            /\ last_error' =
                  IF r.printed # "" THEN r.printed
                  ELSE IF Refused("control_commands") THEN "Database logging error"
                  ELSE last_error
            /\ UNCHANGED <<now, devices, device_data, sensor_data, mqtt_connected,
                           pushed, liveness, surroundings>>

----------------------------------------------------------------------------
(* Registry operations reached from the heartbeat thread and the UI *)

\* device_manager.check_device_heartbeats(timeout_seconds)
Sweep(timeout_seconds) ==
    LET r == Store(devices, check_device_heartbeats(devices, timeout_seconds, now),
                   "Error checking device heartbeats", "None")
    IN  /\ devices' = r.rows
        /\ liveness' = Track("sweep", None, r.rows)
        /\ last_error' = Console(r)
        /\ UNCHANGED <<now, device_data, sensor_data, control_commands,
                       mqtt_connected, published, pushed, surroundings>>

\* while True: time.sleep(30); check_device_heartbeats(timeout_seconds=60)
heartbeat_checker == Sweep(HEARTBEAT_TIMEOUT)

\* if n_clicks and device_id and device_name and device_type: register_device(...)
add_new_device(device_id, device_name, device_type, location) ==
    LET r == Store(devices,
                   register_device(devices, device_id, device_name, device_type,
                                   location, {}, now),
                   "Error registering device", "False")
    IN  /\ device_id # "" /\ device_name # "" /\ device_type # ""
        /\ devices' = r.rows
        /\ liveness' = Track("register", device_id, r.rows)
        /\ last_error' = Console(r)
        /\ UNCHANGED <<now, device_data, sensor_data, control_commands,
                       mqtt_connected, published, pushed, surroundings>>

\* device_manager.unregister_device(device_id)
Unregister(device_id) ==
    LET r == Store(devices, unregister_device(devices, device_id),
                   "Error unregistering device", "False")
    IN  /\ devices' = r.rows
        /\ liveness' = Track("unregister", device_id, r.rows)
        /\ last_error' = Console(r)
        /\ UNCHANGED <<now, device_data, sensor_data, control_commands,
                       mqtt_connected, published, pushed, surroundings>>

----------------------------------------------------------------------------
(* Threads.  The paho network loop runs on_connect, on_message and         *)
(* on_disconnect one after the other; heartbeat_thread runs                *)
(* heartbeat_checker; the web server runs each Dash callback on a thread   *)
(* of its own.                                                             *)

ThreadNames == {"mqtt", "heartbeat", "sections", "controls"}

\* the locals of each thread outside any call
NoFrames ==
    [mqtt      |-> [topic |-> <<>>, payload |-> <<>>],
     heartbeat |-> [cutoff_time |-> 0],
     sections  |-> [device |-> <<>>, latest |-> <<>>, count |-> 0,
                    times |-> <<>>, temps |-> <<>>, hums |-> <<>>],
     controls  |-> [ret |-> "None"]]

\* a lock whose acquire lets every caller in
acquire_always(lock, th) == TRUE

\* threading.Lock.acquire: the caller gets past it only while no thread is inside
acquire(lock, th) == lock = None

\* a lock released by a release() call at the end of the body, which an
\* exception skips
with_exit_unless_raised(lock, th, raised) == IF raised THEN lock ELSE None

\* a with block drawn around the rest of the handler: the lock is still
\* held where the block ends in the source
with_exit_deferred(lock, th, raised) == lock

\* the end of a with block: the lock is released whether the body returned or raised
with_exit(lock, th, raised) == None

\* the locks thread th is inside
Holds(th) ==
    (IF db_lock = th THEN {"db_lock"} ELSE {})
    \cup (IF data_lock = th THEN {"data_lock"} ELSE {})

Goto(th, label) == [pc EXCEPT ![th] = label]

----------------------------------------------------------------------------
(* Environment: the clock and the messages the broker delivers *)

Tick ==
    /\ now + ClockStep <= MaxTime
    /\ now' = now + ClockStep
    /\ UNCHANGED <<devices, device_data, sensor_data, control_commands,
                   mqtt_connected, published, last_error, pushed, liveness, surroundings>>

Object(obj) == [kind |-> "object", obj |-> obj]
Garbage == [kind |-> "garbage", obj |-> <<>>]
Scalar == [kind |-> "scalar", obj |-> <<>>]

SensorsTopic(d) == <<"iot", "dashboard", d, "sensors">>
StatusTopic(d) == <<"iot", "dashboard", d, "status">>
ControlTopic(d) == <<"iot", "dashboard", d, "control">>

\* one device announces itself over MQTT; the other is added through the UI
RegisterPayloads ==
    {[device_id |-> d, device_name |-> "Sensor A", device_type |-> "ESP32",
      location |-> "lab", capabilities |-> {"temperature"}] : d \in {"d1"}}
    \cup {[device_name |-> "Sensor A", device_type |-> "ESP32"],
          [device_id |-> "d1", device_type |-> "ESP32"],
          [device_id |-> "d1", device_name |-> "Sensor A"]}

SensorsPayloads == {[temperature |-> 21]}

StatusPayloads ==
    {<<>>} \cup {[status |-> s] : s \in {"offline", "rebooting"}}

Events ==
    {[topic |-> REGISTER_TOPIC, payload |-> Object(p)] : p \in RegisterPayloads}
    \cup {[topic |-> SensorsTopic("d1"), payload |-> Object(p)] : p \in SensorsPayloads}
    \cup {[topic |-> StatusTopic("d1"), payload |-> Object(p)] : p \in StatusPayloads}

\* payloads that are no JSON text, on every topic
Malformed ==
    {[topic |-> t, payload |-> r] :
        t \in {REGISTER_TOPIC, SensorsTopic("d1"), StatusTopic("d1"), ControlTopic("d1")},
        r \in {Garbage}}

\* topics that are none of register, {device_id}/sensors, {device_id}/status
\* under iot/dashboard: a control topic, a foreign prefix, a longer topic
UnknownTopic ==
    {[topic |-> ControlTopic("d1"), payload |-> Object(<<>>)]}
    \cup {[topic |-> t, payload |-> Object(p)] :
            t \in {<<"other", "site", "d1", "sensors">>,
                   <<"iot", "dashboard", "d1", "sensors", "raw">>},
            p \in SensorsPayloads}

IsSensors(m) == Len(m.topic) >= 4 /\ m.topic[4] = "sensors"

Inbound == Events \cup Malformed \cup UnknownTopic

IsRegister(m) == m.topic = REGISTER_TOPIC
IsStatus(m) == Len(m.topic) >= 4 /\ m.topic[4] = "status"

\* the device an event is about
DeviceOf(m) ==
    IF IsRegister(m) THEN Get(m.payload.obj, "device_id", None) ELSE m.topic[3]

\* events that carry every field their kind requires
WellFormed ==
    {m \in Events : IsRegister(m) =>
        {"device_id", "device_name", "device_type"} \subseteq DOMAIN m.payload.obj}

\* the bounds on what the environment sends
Admissible(m) ==
    /\ IsSensors(m) => Len(pushed[m.topic[3]]) < MaxSamples
    /\ m.topic = REGISTER_TOPIC => Len(devices) < MaxRows

Receive == \E m \in Inbound : Admissible(m) /\ on_message(m.topic, m.payload)

Connect == \E rc \in {0, 5} : on_connect(rc)

Publish ==
    /\ mqtt_connected => Len(published) < MaxCommands
    /\ publish_control_command("d1", "LED", "ON")

AddDevice ==
    /\ Len(devices) < MaxRows
    /\ add_new_device("d2", "Sensor B", "ESP32", "")

Remove == \E d \in DeviceIds : Unregister(d)

Init ==
    /\ now = 0
    /\ devices = <<>>
    /\ device_data = <<>>
    /\ sensor_data = <<>>
    /\ control_commands = <<>>
    /\ mqtt_connected = FALSE
    /\ published = <<>>
    /\ last_error = ""
    /\ pushed = [d \in DeviceIds |-> <<>>]
    /\ liveness = [d \in DeviceIds |-> "none"]
    /\ listed = <<>>
    /\ charted = [device_id |-> None, times |-> <<>>, temps |-> <<>>, hums |-> <<>>]
    /\ db_fault = "none"
    /\ pc = [th \in ThreadNames |-> IF th = "heartbeat" THEN "sleep" ELSE "idle"]
    /\ db_lock = None
    /\ data_lock = None
    /\ frame = NoFrames
    /\ wake = HEARTBEAT_INTERVAL

Next ==
    \/ Tick
    \/ Receive
    \/ heartbeat_checker
    \/ AddDevice
    \/ Remove
    \/ Connect
    \/ on_disconnect
    \/ Publish

Spec == Init /\ [][Next]_vars

\* the database file stops taking writes (to sensor_data, or at all: by
\* default DeviceManager and the dashboard open the same iot_data.db) or
\* takes them again
StoreFault ==
    /\ db_fault' \in {"none", "sensor_data", "database"} \ {db_fault}
    /\ UNCHANGED <<now, devices, device_data, sensor_data, control_commands,
                   mqtt_connected, published, last_error, pushed, liveness,
                   listed, charted, threads>>

\* Message handling and the sweep over a database file that can fail
NextStore ==
    \/ Tick
    \/ Receive
    \/ heartbeat_checker
    \/ StoreFault

SpecStore == Init /\ [][NextStore]_vars

\* devices = device_manager.get_all_devices(), the list the callback renders
update_device_list ==
    /\ listed' = get_all_devices(devices)
    /\ UNCHANGED <<now, devices, device_data, sensor_data, control_commands,
                   mqtt_connected, published, last_error, pushed, liveness,
                   charted, db_fault, threads>>

\* the chart part of update_device_sections for the selected device: nothing
\* is read when no device is selected or get_device finds no record
update_device_sections(device_id) ==
    /\ device_id # None
    /\ IF HasRecord(devices, device_id)
       THEN LET r == read_buffers(device_data, device_id)
            IN  /\ device_data' = r.device_data
                /\ charted' = [device_id |-> device_id, times |-> r.times,
                               temps |-> r.temps, hums |-> r.hums]
       ELSE UNCHANGED <<device_data, charted>>
    /\ UNCHANGED <<now, devices, sensor_data, control_commands, mqtt_connected,
                   published, last_error, pushed, liveness, listed, db_fault,
                   threads>>

\* the broker delivers a Register or Status event
Announce ==
    \E m \in Events : ~IsSensors(m) /\ Admissible(m) /\ on_message(m.topic, m.payload)

\* The registry's writers and the device list of the UI
NextList ==
    \/ Tick
    \/ Announce
    \/ AddDevice
    \/ Remove
    \/ heartbeat_checker
    \/ update_device_list

SpecList == Init /\ [][NextList]_vars

\* a device sends a few numbered readings
ShortFeed ==
    LET n == Len(pushed["d1"]) + 1
    IN  /\ n <= MaxFeed
        /\ on_message(SensorsTopic("d1"),
                      Object([temperature |-> n, humidity |-> 1000 + n]))

\* the device that reports registers itself
RegisterReporter ==
    /\ ~HasRecord(devices, "d1")
    /\ \E m \in WellFormed :
          IsRegister(m) /\ DeviceOf(m) = "d1" /\ on_message(m.topic, m.payload)

ViewSections == \E d \in DeviceIds : update_device_sections(d)

\* A reporting device, a silent device and the charts of the UI
NextSections ==
    \/ Tick
    \/ RegisterReporter
    \/ AddDevice
    \/ ShortFeed
    \/ ViewSections

SpecSections == Init /\ [][NextSections]_vars

\* One device reporting a numbered reading until its deques have overflowed
BufferFeed ==
    LET n == Len(pushed["d1"]) + 1
    IN  /\ n <= MaxBufferPushes
        /\ on_message(SensorsTopic("d1"),
                      Object([temperature |-> n, humidity |-> 1000 + n]))

NextBuffer == Tick \/ BufferFeed

SpecBuffer == Init /\ [][NextBuffer]_vars

----------------------------------------------------------------------------
(* The handlers taken apart into their statements, one step per statement  *)
(* that takes a lock, touches a deque or calls the database or the broker. *)

\* device_data[device_id][column].append(x); the defaultdict makes the entry
append_one(dd, device_id, column, x) ==
    LET cur == IF device_id \in DOMAIN dd THEN dd[device_id] ELSE NewBuffers
    IN  [k \in DOMAIN dd \cup {device_id} |->
            IF k = device_id THEN [cur EXCEPT ![column] = deque_append(@, x)]
            ELSE dd[k]]

\* seq[-1], for a list that has an item
Newest(seq) == seq[Len(seq)]

\* if device_id in device_data and len(device_data[device_id]['temperature']) > 0:
\*     temp = ...[-1]; hum = ...[-1]; last_time = ...[-1]; count = len(...)
\* else: temp = hum = last_time = None; count = 0
read_latest(dd, device_id) ==
    IF device_id \in DOMAIN dd /\ Len(dd[device_id].temperature) > 0
    THEN [latest |-> <<[temperature |-> Newest(dd[device_id].temperature),
                        humidity    |-> Newest(dd[device_id].humidity),
                        timestamp   |-> Newest(dd[device_id].timestamps)]>>,
          count |-> Len(dd[device_id].temperature)]
    ELSE [latest |-> <<>>, count |-> 0]

\* what the paho thread delivers here: the registration of d1, complete
\* or without a name, its heartbeat, and its readings, numbered
Arrivals ==
    {m \in Events : \/ IsRegister(m) /\ "device_type" \in DOMAIN m.payload.obj
                                     /\ "device_id" \in DOMAIN m.payload.obj
                    \/ IsStatus(m) /\ m.payload.obj = <<>>}
    \cup {[topic |-> SensorsTopic("d1"),
           payload |-> Object([temperature |-> n, humidity |-> 1000 + n])] :
             n \in {Len(pushed["d1"]) + 1} \cap (1..MaxPushes)}

\* on_message up to the branch it takes: decode, split the topic, read the payload
on_message_enter ==
    /\ pc["mqtt"] = "idle"
    /\ \E m \in Arrivals :
          /\ Admissible(m) \/ IsSensors(m)
          /\ frame' = [frame EXCEPT !["mqtt"] =
                          [topic |-> m.topic, payload |-> json_loads(m.payload).obj]]
          /\ pc' = Goto("mqtt", IF IsRegister(m) THEN "register_device"
                                ELSE IF IsSensors(m) THEN "with data_lock"
                                ELSE "update_device_status")
    /\ UNCHANGED <<now, devices, device_data, sensor_data, control_commands,
                   mqtt_connected, published, last_error, pushed, liveness,
                   listed, charted, db_fault, db_lock, data_lock, wake>>

\* with data_lock:
on_message_data_lock ==
    /\ pc["mqtt"] = "with data_lock"
    /\ acquire(data_lock, "mqtt")
    /\ data_lock' = "mqtt"
    /\ pc' = Goto("mqtt", "append timestamps")
    /\ UNCHANGED <<now, devices, device_data, sensor_data, control_commands,
                   mqtt_connected, published, last_error, pushed, liveness,
                   listed, charted, db_fault, db_lock, frame, wake>>

\* device_data[device_id]['timestamps'].append(datetime.now())
on_message_append_timestamps ==
    /\ pc["mqtt"] = "append timestamps"
    /\ device_data' = append_one(device_data, frame["mqtt"].topic[3], "timestamps", now)
    /\ pc' = Goto("mqtt", "append temperature")
    /\ UNCHANGED <<now, devices, sensor_data, control_commands,
                   mqtt_connected, published, last_error, pushed, liveness,
                   listed, charted, db_fault, db_lock, data_lock, frame, wake>>

\* device_data[device_id]['temperature'].append(temperature)
on_message_append_temperature ==
    /\ pc["mqtt"] = "append temperature"
    /\ device_data' = append_one(device_data, frame["mqtt"].topic[3], "temperature",
                                 Get(frame["mqtt"].payload, "temperature", 0))
    /\ pc' = Goto("mqtt", "append humidity")
    /\ UNCHANGED <<now, devices, sensor_data, control_commands,
                   mqtt_connected, published, last_error, pushed, liveness,
                   listed, charted, db_fault, db_lock, data_lock, frame, wake>>

\* device_data[device_id]['humidity'].append(humidity), the end of the with block
on_message_append_humidity ==
    LET device_id == frame["mqtt"].topic[3]
        humidity == Get(frame["mqtt"].payload, "humidity", 0)
    IN  /\ pc["mqtt"] = "append humidity"
        /\ device_data' = append_one(device_data, device_id, "humidity", humidity)
        /\ pushed' = [pushed EXCEPT ![device_id] =
                         Append(@, [timestamp |-> Newest(device_data[device_id].timestamps),
                                    temperature |-> Newest(device_data[device_id].temperature),
                                    humidity |-> humidity])]
        /\ data_lock' = with_exit(data_lock, "mqtt", FALSE)
        /\ pc' = Goto("mqtt", "log_sensor_data")
        /\ UNCHANGED <<now, devices, sensor_data, control_commands,
                       mqtt_connected, published, last_error, liveness,
                       listed, charted, db_fault, db_lock, frame, wake>>

\* log_sensor_data(temperature, humidity, device_id)
on_message_log_sensor_data ==
    /\ pc["mqtt"] = "log_sensor_data"
    /\ sensor_data' =
          IF Refused("sensor_data") THEN sensor_data
          ELSE log_sensor_data(sensor_data,
                               Get(frame["mqtt"].payload, "temperature", 0),
                               Get(frame["mqtt"].payload, "humidity", 0),
                               frame["mqtt"].topic[3])
    /\ last_error' = IF Refused("sensor_data") THEN "Database logging error"
                     ELSE last_error
    /\ pc' = Goto("mqtt", "update_device_status")
    /\ UNCHANGED <<now, devices, device_data, control_commands,
                   mqtt_connected, published, pushed, liveness,
                   listed, charted, db_fault, db_lock, data_lock, frame, wake>>

\* device_manager.update_device_status(...): try: with db_lock:
update_device_status_db_lock ==
    /\ pc["mqtt"] = "update_device_status"
    /\ acquire(db_lock, "mqtt")
    /\ db_lock' = "mqtt"
    /\ pc' = Goto("mqtt", "update execute")
    /\ UNCHANGED <<now, devices, device_data, sensor_data, control_commands,
                   mqtt_connected, published, last_error, pushed, liveness,
                   listed, charted, db_fault, data_lock, frame, wake>>

\* connect, UPDATE devices SET status = ?, last_seen = ? ..., commit, close;
\* the with block ends, by return or by exception, and on_message returns
update_device_status_execute ==
    LET m == frame["mqtt"]
        device_id == m.topic[3]
        status == IF m.topic[4] = "sensors" THEN "online"
                  ELSE Get(m.payload, "status", "online")
        r == Store(devices, update_device_status(devices, device_id, status, now),
                   "Error updating device status", "None")
    IN  /\ pc["mqtt"] = "update execute"
        /\ devices' = r.rows
        /\ liveness' = Track(m.topic[4], device_id, r.rows)
        /\ last_error' = Console(r)
        /\ db_lock' = with_exit(db_lock, "mqtt", r.error)
        /\ pc' = Goto("mqtt", "idle")
        /\ frame' = [frame EXCEPT !["mqtt"] = NoFrames["mqtt"]]
        /\ UNCHANGED <<now, device_data, sensor_data, control_commands,
                       mqtt_connected, published, pushed,
                       listed, charted, db_fault, data_lock, wake>>

\* device_manager.register_device(...): try: with db_lock:
register_device_db_lock ==
    /\ pc["mqtt"] = "register_device"
    /\ acquire(db_lock, "mqtt")
    /\ db_lock' = "mqtt"
    /\ pc' = Goto("mqtt", "register execute")
    /\ UNCHANGED <<now, devices, device_data, sensor_data, control_commands,
                   mqtt_connected, published, last_error, pushed, liveness,
                   listed, charted, db_fault, data_lock, frame, wake>>

\* connect, INSERT OR REPLACE INTO devices ..., commit, close; the with
\* block ends, by return or by exception (the file refuses the write, or a
\* NOT NULL column gets None), the except clause prints, on_message returns
register_device_execute ==
    LET payload == frame["mqtt"].payload
        device_id == Get(payload, "device_id", None)
        r == Store(devices,
                   register_device(devices, device_id,
                                   Get(payload, "device_name", None),
                                   Get(payload, "device_type", None),
                                   Get(payload, "location", ""),
                                   Get(payload, "capabilities", {}), now),
                   "Error registering device", "False")
    IN  /\ pc["mqtt"] = "register execute"
        /\ devices' = r.rows
        /\ liveness' = Track("register", device_id, r.rows)
        /\ last_error' = IF r.error THEN "Error registering device" ELSE last_error
        /\ db_lock' = with_exit(db_lock, "mqtt", r.error)
        /\ pc' = Goto("mqtt", "idle")
        /\ frame' = [frame EXCEPT !["mqtt"] = NoFrames["mqtt"]]
        /\ UNCHANGED <<now, device_data, sensor_data, control_commands,
                       mqtt_connected, published, pushed,
                       listed, charted, db_fault, data_lock, wake>>

\* the network loop runs its callbacks one at a time
loop_on_connect == pc["mqtt"] = "idle" /\ Connect

loop_on_disconnect == pc["mqtt"] = "idle" /\ on_disconnect

mqtt_thread ==
    \/ on_message_enter
    \/ on_message_data_lock
    \/ on_message_append_timestamps
    \/ on_message_append_temperature
    \/ on_message_append_humidity
    \/ on_message_log_sensor_data
    \/ update_device_status_db_lock
    \/ update_device_status_execute
    \/ register_device_db_lock
    \/ register_device_execute

\* time.sleep(30) returns
sleep_returns ==
    /\ pc["heartbeat"] = "sleep"
    /\ now >= wake
    /\ pc' = Goto("heartbeat", "check_device_heartbeats")
    /\ UNCHANGED <<now, devices, device_data, sensor_data, control_commands,
                   mqtt_connected, published, last_error, pushed, liveness,
                   listed, charted, db_fault, db_lock, data_lock, frame, wake>>

\* device_manager.check_device_heartbeats(timeout_seconds=60): try: with db_lock:
check_device_heartbeats_db_lock ==
    /\ pc["heartbeat"] = "check_device_heartbeats"
    /\ acquire(db_lock, "heartbeat")
    /\ db_lock' = "heartbeat"
    /\ pc' = Goto("heartbeat", "cutoff_time")
    /\ UNCHANGED <<now, devices, device_data, sensor_data, control_commands,
                   mqtt_connected, published, last_error, pushed, liveness,
                   listed, charted, db_fault, data_lock, frame, wake>>

\* connect; cutoff_time = datetime.now() - timedelta(seconds=timeout_seconds)
check_device_heartbeats_cutoff ==
    /\ pc["heartbeat"] = "cutoff_time"
    /\ frame' = [frame EXCEPT !["heartbeat"].cutoff_time = now - HEARTBEAT_TIMEOUT]
    /\ pc' = Goto("heartbeat", "sweep execute")
    /\ UNCHANGED <<now, devices, device_data, sensor_data, control_commands,
                   mqtt_connected, published, last_error, pushed, liveness,
                   listed, charted, db_fault, db_lock, data_lock, wake>>

\* UPDATE devices SET status = 'offline' WHERE last_seen < ? ..., commit,
\* close; the with block ends and the loop goes back to time.sleep(30)
check_device_heartbeats_execute ==
    LET r == Store(devices,
                   check_device_heartbeats(devices, HEARTBEAT_TIMEOUT,
                       frame["heartbeat"].cutoff_time + HEARTBEAT_TIMEOUT),
                   "Error checking device heartbeats", "None")
    IN  /\ pc["heartbeat"] = "sweep execute"
        /\ devices' = r.rows
        /\ liveness' = Track("sweep", None, r.rows)
        /\ last_error' = Console(r)
        /\ db_lock' = with_exit(db_lock, "heartbeat", r.error)
        /\ wake' = IF now + HEARTBEAT_INTERVAL < Horizon
                   THEN now + HEARTBEAT_INTERVAL ELSE Horizon
        /\ pc' = Goto("heartbeat", "sleep")
        /\ UNCHANGED <<now, device_data, sensor_data, control_commands,
                       mqtt_connected, published, pushed,
                       listed, charted, db_fault, data_lock, frame>>

heartbeat_thread ==
    \/ sleep_returns
    \/ check_device_heartbeats_db_lock
    \/ check_device_heartbeats_cutoff
    \/ check_device_heartbeats_execute

\* the device whose sections the browser shows
SelectedDevice == "d1"

\* update_device_sections(device_id, n) with a device selected
sections_enter ==
    /\ pc["sections"] = "idle"
    /\ pc' = Goto("sections", "get_device")
    /\ UNCHANGED <<now, devices, device_data, sensor_data, control_commands,
                   mqtt_connected, published, last_error, pushed, liveness,
                   listed, charted, db_fault, db_lock, data_lock, frame, wake>>

\* device = device_manager.get_device(device_id): try: with db_lock:
get_device_db_lock ==
    /\ pc["sections"] = "get_device"
    /\ acquire(db_lock, "sections")
    /\ db_lock' = "sections"
    /\ pc' = Goto("sections", "get_device select")
    /\ UNCHANGED <<now, devices, device_data, sensor_data, control_commands,
                   mqtt_connected, published, last_error, pushed, liveness,
                   listed, charted, db_fault, data_lock, frame, wake>>

\* connect, SELECT * FROM devices WHERE device_id = ?, fetchone, close, the
\* row made a dict; if not device: return the "Device not found" alert
get_device_select ==
    LET found == HasRecord(devices, SelectedDevice)
    IN  /\ pc["sections"] = "get_device select"
        /\ frame' = [frame EXCEPT !["sections"].device =
                        IF found THEN <<RowOf(devices, SelectedDevice)>> ELSE <<>>]
        /\ db_lock' = with_exit(db_lock, "sections", FALSE)
        /\ pc' = Goto("sections", IF found THEN "latest with data_lock" ELSE "idle")
        /\ UNCHANGED <<now, devices, device_data, sensor_data, control_commands,
                       mqtt_connected, published, last_error, pushed, liveness,
                       listed, charted, db_fault, data_lock, wake>>

\* # Get latest data: with data_lock:
sections_latest_data_lock ==
    /\ pc["sections"] = "latest with data_lock"
    /\ acquire(data_lock, "sections")
    /\ data_lock' = "sections"
    /\ pc' = Goto("sections", "latest read")
    /\ UNCHANGED <<now, devices, device_data, sensor_data, control_commands,
                   mqtt_connected, published, last_error, pushed, liveness,
                   listed, charted, db_fault, db_lock, frame, wake>>

\* temp, hum, last_time, count read inside the first with block
sections_latest_read ==
    LET r == read_latest(device_data, SelectedDevice)
    IN  /\ pc["sections"] = "latest read"
        /\ frame' = [frame EXCEPT !["sections"].latest = r.latest,
                                  !["sections"].count = r.count]
        /\ data_lock' = with_exit(data_lock, "sections", FALSE)
        /\ pc' = Goto("sections", "chart with data_lock")
        /\ UNCHANGED <<now, devices, device_data, sensor_data, control_commands,
                       mqtt_connected, published, last_error, pushed, liveness,
                       listed, charted, db_fault, db_lock, wake>>

\* # Charts Section: with data_lock:
sections_chart_data_lock ==
    /\ pc["sections"] = "chart with data_lock"
    /\ acquire(data_lock, "sections")
    /\ data_lock' = "sections"
    /\ pc' = Goto("sections", "chart read")
    /\ UNCHANGED <<now, devices, device_data, sensor_data, control_commands,
                   mqtt_connected, published, last_error, pushed, liveness,
                   listed, charted, db_fault, db_lock, frame, wake>>

\* times, temps, hums copied inside the second with block
sections_chart_read ==
    LET r == read_buffers(device_data, SelectedDevice)
    IN  /\ pc["sections"] = "chart read"
        /\ device_data' = r.device_data
        /\ frame' = [frame EXCEPT !["sections"].times = r.times,
                                  !["sections"].temps = r.temps,
                                  !["sections"].hums = r.hums]
        /\ data_lock' = with_exit(data_lock, "sections", FALSE)
        /\ pc' = Goto("sections", "return sections")
        /\ UNCHANGED <<now, devices, sensor_data, control_commands,
                       mqtt_connected, published, last_error, pushed, liveness,
                       listed, charted, db_fault, db_lock, wake>>

\* return metrics, charts, controls
sections_return ==
    /\ pc["sections"] = "return sections"
    /\ pc' = Goto("sections", "idle")
    /\ frame' = [frame EXCEPT !["sections"] = NoFrames["sections"]]
    /\ UNCHANGED <<now, devices, device_data, sensor_data, control_commands,
                   mqtt_connected, published, last_error, pushed, liveness,
                   listed, charted, db_fault, db_lock, data_lock, wake>>

sections_thread ==
    \/ sections_enter
    \/ get_device_db_lock
    \/ get_device_select
    \/ sections_latest_data_lock
    \/ sections_latest_read
    \/ sections_chart_data_lock
    \/ sections_chart_read
    \/ sections_return

\* handle_controls calls publish_control_command(device_id, "LED", "ON"):
\* if mqtt_client and mqtt_connected: ... else: print, return False
publish_if_connected ==
    /\ pc["controls"] = "idle"
    /\ mqtt_connected => Len(published) < MaxCommands
    /\ IF mqtt_connected
       THEN /\ pc' = Goto("controls", "publish")
            /\ frame' = [frame EXCEPT !["controls"].ret = "None"]
            /\ UNCHANGED last_error
       ELSE /\ pc' = pc
            /\ frame' = [frame EXCEPT !["controls"].ret = "False"]
            /\ last_error' = "MQTT not connected"
    /\ UNCHANGED <<now, devices, device_data, sensor_data, control_commands,
                   mqtt_connected, published, pushed, liveness,
                   listed, charted, db_fault, db_lock, data_lock, wake>>

\* payload = {...}; mqtt_client.publish(topic, json.dumps(payload))
publish_send ==
    /\ pc["controls"] = "publish"
    /\ published' = Append(published,
            [topic |-> ControlTopic("d1"),
             payload |-> [command |-> "LED", value |-> "ON", timestamp |-> now]])
    /\ pc' = Goto("controls", "log_control_command")
    /\ UNCHANGED <<now, devices, device_data, sensor_data, control_commands,
                   mqtt_connected, last_error, pushed, liveness,
                   listed, charted, db_fault, db_lock, data_lock, frame, wake>>

\* log_control_command(command_type, value, device_id)
publish_log_control_command ==
    /\ pc["controls"] = "log_control_command"
    /\ control_commands' =
          IF Refused("control_commands") THEN control_commands
          ELSE log_control_command(control_commands, "LED", "ON", "d1")
    /\ last_error' = IF Refused("control_commands") THEN "Database logging error"
                     ELSE last_error
    /\ pc' = Goto("controls", "return True")
    /\ UNCHANGED <<now, devices, device_data, sensor_data,
                   mqtt_connected, published, pushed, liveness,
                   listed, charted, db_fault, db_lock, data_lock, frame, wake>>

\* print(...); return True
publish_return_true ==
    /\ pc["controls"] = "return True"
    /\ frame' = [frame EXCEPT !["controls"].ret = "True"]
    /\ pc' = Goto("controls", "idle")
    /\ UNCHANGED <<now, devices, device_data, sensor_data, control_commands,
                   mqtt_connected, published, last_error, pushed, liveness,
                   listed, charted, db_fault, db_lock, data_lock, wake>>

controls_thread ==
    \/ publish_if_connected
    \/ publish_send
    \/ publish_log_control_command
    \/ publish_return_true

\* the process 30 seconds after its start, no message received yet: the
\* heartbeat thread's first time.sleep(30) is about to return
AfterFirstSleep ==
    /\ now = HEARTBEAT_INTERVAL
    /\ devices = <<>>
    /\ device_data = <<>>
    /\ sensor_data = <<>>
    /\ control_commands = <<>>
    /\ mqtt_connected = FALSE
    /\ published = <<>>
    /\ last_error = ""
    /\ pushed = [d \in DeviceIds |-> <<>>]
    /\ liveness = [d \in DeviceIds |-> "none"]
    /\ listed = <<>>
    /\ charted = [device_id |-> None, times |-> <<>>, temps |-> <<>>, hums |-> <<>>]
    /\ db_fault = "none"
    /\ pc = [th \in ThreadNames |-> IF th = "heartbeat" THEN "sleep" ELSE "idle"]
    /\ db_lock = None
    /\ data_lock = None
    /\ frame = NoFrames
    /\ wake = HEARTBEAT_INTERVAL

\* The message thread, the heartbeat thread and the sections callback side
\* by side, statement by statement
NextLocks ==
    \/ mqtt_thread
    \/ heartbeat_thread
    \/ sections_thread

SpecLocks == AfterFirstSleep /\ [][NextLocks]_vars

\* thread th is between two calls: in no handler, or asleep
AtRest(th) == pc[th] \in {"idle", "sleep"}

\* a thread inside a handler is scheduled again and again, and a thread
\* waiting at a lock gets it at one of the times it is free
SpecLocksFair ==
    /\ SpecLocks
    /\ SF_vars(~AtRest("mqtt") /\ mqtt_thread)
    /\ SF_vars(~AtRest("heartbeat") /\ heartbeat_thread)
    /\ SF_vars(~AtRest("sections") /\ sections_thread)

\* The message thread and the controls callback side by side
NextPublisher ==
    \/ mqtt_thread
    \/ loop_on_connect
    \/ loop_on_disconnect
    \/ controls_thread

SpecPublisher == Init /\ [][NextPublisher]_vars

\* the clock of the heartbeat thread's schedule, in steps much longer than
\* a sweep takes: it advances while the thread sleeps, and a sweep whose
\* sleep has ended runs before the clock shows the next instant; instants
\* from Horizon on are all read as Horizon
Elapse ==
    /\ now < Horizon
    /\ pc["heartbeat"] = "sleep" /\ now < wake
    /\ now' = IF now + Pace < Horizon THEN now + Pace ELSE Horizon
    /\ UNCHANGED <<devices, device_data, sensor_data, control_commands,
                   mqtt_connected, published, last_error, pushed, liveness, surroundings>>

\* the second device is added through the UI, once
FirstAdd == ~HasRecord(devices, "d2") /\ AddDevice

\* The heartbeat thread on its schedule, two devices that register and
\* then stay silent, and a database file that can refuse the sweep
NextHeartbeat ==
    \/ Elapse
    \/ StoreFault
    \/ RegisterReporter
    \/ FirstAdd
    \/ heartbeat_thread

\* the clock advances and the heartbeat thread is scheduled
SpecHeartbeat ==
    Init /\ [][NextHeartbeat]_vars /\ WF_vars(Elapse) /\ WF_vars(heartbeat_thread)

\* The message thread and the heartbeat thread side by side, with the clock
NextSweepRace ==
    \/ Tick
    \/ mqtt_thread
    \/ heartbeat_thread

SpecSweepRace == Init /\ [][NextSweepRace]_vars

----------------------------------------------------------------------------
(* Properties *)

OnlineNow(rows, device_id, t) ==
    \E i \in DOMAIN rows :
        /\ SqlEq(rows[i].device_id, device_id)
        /\ rows[i].status = "online"
        /\ rows[i].last_seen = t

Min(a, b) == IF a < b THEN a ELSE b

\* the rows whose primary key is NULL, in rowid order
NullRows(rows) == SelectSeq(rows, LAMBDA r : r.device_id = None)

\* C1: after on_message has processed a well-formed Register, Sensors or
\* Status event for a device_id, the registry holds a record for that id
\* with status online and last_seen equal to the processing time.
C1_EveryEventOnline ==
    [][\A m \in WellFormed :
          on_message(m.topic, m.payload) => OnlineNow(devices', DeviceOf(m), now')]_vars

\* C2: a sweep with timeout T sets offline exactly the records that are
\* online with now - last_seen >= T, the boundary now - last_seen = T
\* included, and leaves every other record as it was (stated for the
\* heartbeat thread's T and the records that have a device_id).
C2_SweepAtTimeout ==
    LET T == HEARTBEAT_TIMEOUT
        swept == check_device_heartbeats(devices, T, now).rows
    IN  /\ DOMAIN swept = DOMAIN devices
        /\ \A i \in DOMAIN devices :
              devices[i].device_id # None
              => swept[i] =
                    IF devices[i].status = "online" /\ now - devices[i].last_seen >= T
                    THEN [devices[i] EXCEPT !.status = "offline"]
                    ELSE devices[i]

\* C3: a device's three deques never hold more than MAX_DATA_POINTS items
\* and hold exactly the min(k, MAX_DATA_POINTS) samples pushed last, in
\* arrival order, k being the number of samples pushed for the device.
C3_BufferHoldsMostRecent ==
    \A d \in DeviceIds :
        LET h == pushed[d]
            k == Len(h)
            n == Min(k, MAX_DATA_POINTS)
        IN  IF k = 0 THEN d \notin DOMAIN device_data
            ELSE /\ d \in DOMAIN device_data
                 /\ Len(device_data[d].timestamps) = n
                 /\ Len(device_data[d].temperature) = n
                 /\ Len(device_data[d].humidity) = n
                 /\ n <= MAX_DATA_POINTS
                 /\ \A i \in 1..n :
                       /\ device_data[d].timestamps[i] = h[k - n + i].timestamp
                       /\ device_data[d].temperature[i] = h[k - n + i].temperature
                       /\ device_data[d].humidity[i] = h[k - n + i].humidity

\* C3 witness: 101 samples pushed, the deque holds samples 2..101
C3_Overflowed ==
    /\ Len(pushed["d1"]) = MAX_DATA_POINTS + 1
    /\ "d1" \in DOMAIN device_data
    /\ Len(device_data["d1"].temperature) = MAX_DATA_POINTS
    /\ device_data["d1"].temperature[1] = 2
    /\ device_data["d1"].temperature[MAX_DATA_POINTS] = MAX_DATA_POINTS + 1
    /\ \A i \in 1..MAX_DATA_POINTS : device_data["d1"].temperature[i] # 1

\* C4: the registry holds at most one record per device_id, and
\* get_all_devices() has as many entries as there are distinct device_ids.
C4_OneRecordPerDeviceId ==
    /\ \A i, j \in DOMAIN devices :
          devices[i].device_id = devices[j].device_id => i = j
    /\ Len(get_all_devices(devices)) =
          Cardinality({devices[i].device_id : i \in DOMAIN devices})

\* C5: a message whose payload cannot be decoded, on any topic, changes
\* neither the registry nor a telemetry buffer, writes no persistence
\* record, and has its error printed.
C5_MalformedDropped ==
    [][\A m \in Inbound :
          (m.payload.kind = "garbage" /\ on_message(m.topic, m.payload))
          => /\ UNCHANGED <<devices, device_data, sensor_data, control_commands>>
             /\ last_error' = "JSONDecodeError"]_vars

\* C5 witness: a decode error was printed while registry and buffers hold data
C5_MalformedSeen ==
    /\ last_error = "JSONDecodeError"
    /\ devices # <<>>
    /\ DOMAIN device_data # {}
    /\ sensor_data # <<>>

\* C6: an online device not heard of for longer than the timeout is set
\* offline by a sweep; a later Sensors event for it sets it online again
\* with a later last_seen; neither step loses the record.
C6_LivenessRoundTrip ==
    /\ [](LET swept == check_device_heartbeats(devices, HEARTBEAT_TIMEOUT, now).rows
          IN  /\ DOMAIN swept = DOMAIN devices
              /\ \A i \in DOMAIN devices :
                    IF devices[i].status = "online"
                       /\ now - devices[i].last_seen > HEARTBEAT_TIMEOUT
                    THEN swept[i] = [devices[i] EXCEPT !.status = "offline"]
                    ELSE swept[i].device_id = devices[i].device_id)
    /\ [][\A m \in Events :
            (IsSensors(m) /\ HasRecord(devices, DeviceOf(m))
             /\ on_message(m.topic, m.payload))
            => /\ OnlineNow(devices', DeviceOf(m), now')
               /\ SeenOf(devices', DeviceOf(m)) >= SeenOf(devices, DeviceOf(m))
               /\ liveness[DeviceOf(m)] = "swept"
                  => SeenOf(devices', DeviceOf(m)) > SeenOf(devices, DeviceOf(m))
               /\ Len(devices') = Len(devices)
               /\ \A i \in DOMAIN devices :
                     devices'[i].device_id = devices[i].device_id]_vars

\* C6 witness: a device swept offline is online again after a Sensors event
C6_Revived ==
    \E d \in DeviceIds : liveness[d] = "revived" /\ OnlineNow(devices, d, now)

\* C7: a Sensors event for a device_id without a registry record creates a
\* record for it, with status online.
C7_SensorsAutoProvision ==
    [][\A m \in Events :
          (IsSensors(m) /\ on_message(m.topic, m.payload))
          => /\ HasRecord(devices', DeviceOf(m))
             /\ StatusOf(devices', DeviceOf(m)) = "online"]_vars

\* the step is the heartbeat thread's sweep, and it finds the record of d stale
SweptStale(d) ==
    /\ heartbeat_checker
    /\ now - SeenOf(devices, d) > HEARTBEAT_TIMEOUT

\* the step processes a Status event for d whose payload says "offline"
ToldOffline(d) ==
    \E m \in Events :
        /\ IsStatus(m) /\ DeviceOf(m) = d
        /\ Get(m.payload.obj, "status", "online") = "offline"
        /\ on_message(m.topic, m.payload)

\* a step that moves the k-th record without device_id from online to offline
NullRowOffline(k) ==
    /\ k <= Len(NullRows(devices'))
    /\ NullRows(devices)[k].status = "online"
    /\ NullRows(devices')[k].status = "offline"

C9_StatusOnlineOrOffline ==
    \A i \in DOMAIN devices : devices[i].status \in {"online", "offline"}

\* C10: update_device_status for a device_id without a record changes no
\* record and returns a value that differs from that of a successful update.
C10_TouchUnknownSignalled ==
    \A d, e \in DeviceIds :
        (~HasRecord(devices, d) /\ HasRecord(devices, e))
        => /\ update_device_status(devices, d, "online", now).rows = devices
           /\ update_device_status(devices, d, "online", now).ret #
                 update_device_status(devices, e, "online", now).ret

\* C11: without a connection publish_control_command returns False, hands
\* nothing to mqtt_client.publish, writes no control_commands row and only
\* prints that MQTT is not connected.
C11_NoConnectionNoPublish ==
    ~mqtt_connected
    => \A rc \in PublishRc :
          LET r == publish_command(published, control_commands, mqtt_connected,
                                   "d1", "LED", "ON", now, rc)
          IN  /\ r.ret = "False"
              /\ r.published = published
              /\ r.control_commands = control_commands
              /\ r.printed = "MQTT not connected"

\* C11 witness: a command went out, the connection dropped, and a later
\* publish was refused without a second message or a second row
C11_RefusedAfterDisconnect ==
    /\ ~mqtt_connected
    /\ last_error = "MQTT not connected"
    /\ Len(published) = 1
    /\ Len(control_commands) = 1

\* C12: publish_control_command returns True only if mqtt_client.publish
\* reported that the message was accepted.
C12_TrueOnlyIfAccepted ==
    \A rc \in PublishRc :
        publish_command(published, control_commands, mqtt_connected,
                        "d1", "LED", "ON", now, rc).ret = "True"
        => rc = "MQTT_ERR_SUCCESS"

\* C13: a Register event whose payload lacks device_id, device_name or
\* device_type creates no record and leaves every record as it was.
C13_IncompleteRegisterDropped ==
    [][\A m \in Events \ WellFormed :
          (IsRegister(m) /\ on_message(m.topic, m.payload))
          => devices' = devices]_vars

\* C14: a message on a topic that is none of the three inbound topics
\* changes neither the registry nor a telemetry buffer, writes no
\* persistence record, and has a line printed about it.
C14_UnknownTopicDropped ==
    [][\A m \in UnknownTopic :
          on_message(m.topic, m.payload)
          => /\ UNCHANGED <<devices, device_data, sensor_data, control_commands>>
             /\ last_error' = "Unknown topic"]_vars

\* C15: while a device_id has a record, no step changes the record's
\* registered_at (a step that removes the record aside).
C15_RegisteredAtSetOnce ==
    [][\A d \in DeviceIds :
          (HasRecord(devices, d) /\ HasRecord(devices', d))
          => RowOf(devices', d).registered_at = RowOf(devices, d).registered_at]_vars

\* C16: no step moves the last_seen of a record backward, whichever of
\* register_device, update_device_status and check_device_heartbeats it runs.
C16_LastSeenMonotone ==
    [][/\ \A d \in DeviceIds :
             (HasRecord(devices, d) /\ HasRecord(devices', d))
             => SeenOf(devices', d) >= SeenOf(devices, d)
       /\ LET before == NullRows(devices)
              after  == NullRows(devices')
          IN  \A k \in DOMAIN before :
                 k <= Len(after) => after[k].last_seen >= before[k].last_seen]_vars

\* C16 witness: a record was registered again and later touched, its
\* last_seen now ahead of its registered_at
C16_SeenAdvanced ==
    \E d \in DeviceIds :
        /\ HasRecord(devices, d)
        /\ RowOf(devices, d).registered_at > 0
        /\ RowOf(devices, d).last_seen > RowOf(devices, d).registered_at

\* the device_ids that have a record
RegisteredIds(rows) == {d \in DeviceIds : HasRecord(rows, d)}

\* C17: a device_id loses its record only in a step of unregister_device;
\* unregister_device deletes the rows of the named id and no other, and for
\* an id without a record it changes nothing and still returns True.
C17_OnlyRemoveDeletes ==
    /\ [][(~(RegisteredIds(devices) \subseteq RegisteredIds(devices'))
            \/ Len(NullRows(devices')) < Len(NullRows(devices)))
          => Remove]_vars
    /\ [](\A d \in DeviceIds :
            LET r == unregister_device(devices, d)
            IN  /\ r.ret = "True"
                /\ ~HasRecord(r.rows, d)
                /\ r.rows = SelectSeq(devices, LAMBDA x : x.device_id # d)
                /\ ~HasRecord(devices, d) => r.rows = devices
                /\ unregister_device(r.rows, d) = r)

\* C17 witness: one device's record was removed, the other device and a
\* record without device_id are still there
C17_RemovedOne ==
    \E d, e \in DeviceIds :
        /\ liveness[d] = "removed" /\ ~HasRecord(devices, d)
        /\ HasRecord(devices, e)
        /\ NullRows(devices) # <<>>

\* how often record r occurs in seq
Occurrences(seq, r) == Cardinality({i \in DOMAIN seq : seq[i] = r})

\* C18: get_all_devices returns every record of the registry exactly once,
\* in the order of the device names; the list a caller has received stays
\* as it is when the registry changes afterwards.
C18_ListOrderedCopy ==
    /\ [](LET l == get_all_devices(devices)
          IN  /\ Len(l) = Len(devices)
              /\ \A i \in DOMAIN devices :
                    Occurrences(l, devices[i]) = Occurrences(devices, devices[i])
              /\ \A i, j \in DOMAIN l :
                    i < j => NameRank(l[i].device_name) <= NameRank(l[j].device_name))
    /\ [][devices' # devices => listed' = listed]_vars

\* C18 witness: the list was taken while the table held "Sensor B" before
\* "Sensor A"; it has them in name order and is no longer what the
\* registry holds
C18_ListedThenChanged ==
    /\ Len(listed) = 2
    /\ listed[1].device_name = "Sensor A" /\ listed[2].device_name = "Sensor B"
    /\ Len(devices) = 2
    /\ devices[1].device_name = "Sensor B"
    /\ listed # get_all_devices(devices)

\* the last n items of seq, in order
LastOf(seq, n) == [i \in 1..n |-> seq[Len(seq) - n + i]]

\* C19: reading a device's buffers returns its current samples oldest to
\* newest, empty lists for a device that never reported, and leaves
\* device_data as it was, without an entry for a device that never reported.
C19_SnapshotReadOnly ==
    /\ [](\A d \in DeviceIds :
            LET r == read_buffers(device_data, d)
                h == LastOf(pushed[d], Min(Len(pushed[d]), MAX_DATA_POINTS))
            IN  /\ r.device_data = device_data
                /\ r.times = [i \in DOMAIN h |-> h[i].timestamp]
                /\ r.temps = [i \in DOMAIN h |-> h[i].temperature]
                /\ r.hums  = [i \in DOMAIN h |-> h[i].humidity])
    /\ [][(\E d \in DeviceIds : update_device_sections(d))
          => device_data' = device_data]_vars

\* C19 witness: the silent device was read and got empty lists and no
\* entry, while the other device has its readings in order
C19_SilentDeviceRead ==
    /\ charted.device_id = "d2"
    /\ charted.temps = <<>>
    /\ DOMAIN device_data = {"d1"}
    /\ read_buffers(device_data, "d1").temps = <<1, 2, 3>>

\* C20: when the sensor_data insert of a Sensors event fails, the failure is
\* printed and the event is still ingested: the sample is the newest item of
\* the device's buffers and the device's record is online with last_seen
\* equal to the processing time (stated for a device that has a record).
C20_IngestDespiteWriteFailure ==
    [][\A m \in Events :
          (IsSensors(m) /\ Refused("sensor_data")
           /\ HasRecord(devices, DeviceOf(m))
           /\ on_message(m.topic, m.payload))
          => /\ sensor_data' = sensor_data
             /\ last_error' \in {"Database logging error",
                                 "Error updating device status"}
             /\ LET temps == read_buffers(device_data', DeviceOf(m)).temps
                IN  /\ temps # <<>>
                    /\ temps[Len(temps)] = Get(m.payload.obj, "temperature", 0)
             /\ OnlineNow(devices', DeviceOf(m), now')]_vars

\* thread th is at a statement between db_lock's acquire and its release
InRegistry(th) ==
    pc[th] \in {"update execute", "register execute", "cutoff_time",
                "sweep execute", "get_device select"}

\* thread th is at a statement between data_lock's acquire and its release
InBuffers(th) ==
    pc[th] \in {"append timestamps", "append temperature", "append humidity",
                "latest read", "chart read"}

\* C21: at most one thread is inside a registry operation and at most one
\* inside a buffer critical section, each holding the lock; a reader that
\* holds data_lock finds every device's three deques of equal length and
\* the i-th items of the three from the same sample; a reader inside
\* get_device has the registry to itself.
C21_ReadersSeeWholeUpdates ==
    /\ Cardinality({th \in ThreadNames : InRegistry(th)}) <= 1
    /\ Cardinality({th \in ThreadNames : InBuffers(th)}) <= 1
    /\ \A th \in ThreadNames :
          /\ InRegistry(th) => db_lock = th
          /\ InBuffers(th) => data_lock = th
    /\ data_lock = "sections"
       => \A d \in DOMAIN device_data :
             LET q == device_data[d]
                 h == LastOf(pushed[d], Min(Len(pushed[d]), MAX_DATA_POINTS))
             IN  /\ Len(q.timestamps) = Len(q.temperature)
                 /\ Len(q.temperature) = Len(q.humidity)
                 /\ q.timestamps = [i \in DOMAIN h |-> h[i].timestamp]
                 /\ q.temperature = [i \in DOMAIN h |-> h[i].temperature]
                 /\ q.humidity = [i \in DOMAIN h |-> h[i].humidity]

\* C21 witness: the reader is inside data_lock with one sample in the
\* deques while on_message waits at the lock with the next sample, and the
\* heartbeat thread is inside db_lock
C21_ReaderInsideWriterWaits ==
    /\ pc["sections"] = "chart read"
    /\ pc["mqtt"] = "with data_lock"
    /\ pc["heartbeat"] = "sweep execute"
    /\ Len(pushed["d1"]) = 1
    /\ Len(device_data["d1"].humidity) = 1

\* C22: when on_message calls log_sensor_data the sample is already the
\* newest item of the device's three deques and the thread holds no lock;
\* when publish_control_command calls log_control_command the command has
\* already been handed to mqtt_client.publish and the thread holds no lock;
\* no table has a row whose push or publish has not happened.
C22_LoggedAfterwardsUnlocked ==
    /\ pc["mqtt"] = "log_sensor_data"
       => LET m == frame["mqtt"]
              q == device_data[m.topic[3]]
          IN  /\ Holds("mqtt") = {}
              /\ Newest(q.temperature) = Get(m.payload, "temperature", 0)
              /\ Newest(q.humidity) = Get(m.payload, "humidity", 0)
              /\ Len(q.timestamps) = Len(q.humidity)
              /\ Len(pushed[m.topic[3]]) = Len(sensor_data) + 1
    /\ pc["controls"] = "log_control_command"
       => /\ Holds("controls") = {}
          /\ Len(published) = Len(control_commands) + 1
          /\ Newest(published).topic = ControlTopic("d1")
    /\ Len(sensor_data) <= Len(pushed["d1"])
    /\ Len(control_commands) <= Len(published)

\* C22 witness: both writes are about to be issued, the second sample in
\* the deques and the command with the broker
C22_BothWritesPending ==
    /\ pc["mqtt"] = "log_sensor_data"
    /\ pc["controls"] = "log_control_command"
    /\ Len(device_data["d1"].humidity) = 2
    /\ Len(sensor_data) = 1
    /\ Len(published) = 1

InDiskOrNetworkCall(th) ==
    pc[th] \in {"update execute", "register execute", "cutoff_time",
                "sweep execute", "get_device select", "log_sensor_data",
                "log_control_command", "publish"}

\* C24: a thread that holds db_lock or data_lock is not executing a
\* database or transport call.
C24_NoIOInsideLock ==
    \A th \in ThreadNames : Holds(th) # {} => ~InDiskOrNetworkCall(th)

\* C25: no thread is inside data_lock and db_lock at once; a lock is held
\* only by a thread inside its with block, so every path out of the block,
\* an exception included, has released it; whenever a thread is inside a
\* handler some thread can take a step; and every handler a thread has
\* entered is left again.
C25_NoDeadlock ==
    /\ [](\A th \in ThreadNames :
            /\ Holds(th) # {"db_lock", "data_lock"}
            /\ db_lock = th => InRegistry(th)
            /\ data_lock = th => InBuffers(th)
            /\ AtRest(th) => Holds(th) = {})
    /\ []((\E th \in ThreadNames : ~AtRest(th))
          => \E th \in ThreadNames :
                ~AtRest(th)
                /\ ENABLED (~AtRest(th)
                            /\ (mqtt_thread \/ heartbeat_thread \/ sections_thread)))
    /\ \A th \in {"mqtt", "heartbeat", "sections"} : ~AtRest(th) ~> AtRest(th)

\* C25 witness: a registration has failed with an exception inside db_lock,
\* and now the message thread waits for db_lock, which the heartbeat thread
\* holds, while the sections callback is inside data_lock
C25_ContendedAfterException ==
    /\ last_error = "Error registering device"
    /\ pc["mqtt"] = "update_device_status"
    /\ db_lock = "heartbeat"
    /\ data_lock = "sections"

\* C26: when update_device_sections returns, the latest temperature,
\* humidity and timestamp and the data-point count of its metrics are the
\* last items and the length of the series of its chart.
C26_MetricsMatchChart ==
    pc["sections"] = "return sections"
    => LET f == frame["sections"]
       IN  /\ f.count = Len(f.temps)
           /\ Len(f.latest) = (IF f.temps = <<>> THEN 0 ELSE 1)
           /\ f.latest # <<>> /\ f.temps # <<>>
              => /\ f.latest[1].temperature = Newest(f.temps)
                 /\ f.latest[1].humidity = Newest(f.hums)
                 /\ f.latest[1].timestamp = Newest(f.times)

\* C27: while mqtt_connected is false no call of publish_control_command
\* is past its connection test: none hands a message to
\* mqtt_client.publish, writes the command row or returns True.
C27_PublishOnlyWhileConnected ==
    ~mqtt_connected
    => pc["controls"] \notin {"publish", "log_control_command", "return True"}

\* C28: a sweep leaves online every record that register_device or
\* update_device_status last wrote less than the timeout ago, however the
\* message thread and the heartbeat thread interleave; from the sweep's
\* reading of the clock to the end of its UPDATE the heartbeat thread holds
\* db_lock and no other thread is inside a registry operation.
C28_SweepKeepsFresh ==
    /\ [][check_device_heartbeats_execute
          => \A d \in DeviceIds :
                (StatusOf(devices, d) = "online"
                 /\ now - SeenOf(devices, d) < HEARTBEAT_TIMEOUT)
                => StatusOf(devices', d) = "online"]_vars
    /\ [](pc["heartbeat"] \in {"cutoff_time", "sweep execute"}
          => /\ db_lock = "heartbeat"
             /\ \A th \in ThreadNames \ {"heartbeat"} : ~InRegistry(th))
    /\ [](\A i \in DOMAIN devices :
            (devices[i].status = "online"
             /\ now - devices[i].last_seen < HEARTBEAT_TIMEOUT)
            => check_device_heartbeats(devices, HEARTBEAT_TIMEOUT, now).rows[i]
                  = devices[i])

\* C28 witness: the sweep is about to run its UPDATE on a record that an
\* update has written after the process started and after the sweep's
\* cutoff, while the message thread waits at db_lock with the next update
C28_SweepMeetsFreshRecord ==
    /\ pc["heartbeat"] = "sweep execute"
    /\ pc["mqtt"] = "update_device_status"
    /\ StatusOf(devices, "d1") = "online"
    /\ SeenOf(devices, "d1") > 0
    /\ SeenOf(devices, "d1") > frame["heartbeat"].cutoff_time
    /\ now - SeenOf(devices, "d1") < HEARTBEAT_TIMEOUT

\* the record b has in the registry, as a sequence of at most one row
RecordOf(rows, b) == SelectSeq(rows, LAMBDA r : SqlEq(r.device_id, b))

\* the deques b has in device_data, as a sequence of at most one entry
BuffersOf(dd, b) == IF b \in DOMAIN dd THEN <<dd[b]>> ELSE <<>>

\* the step handles an event for device a, registers or removes a, or
\* publishes a command to a
StepFor(a) ==
    \/ \E m \in Events : DeviceOf(m) = a /\ on_message(m.topic, m.payload)
    \/ a = "d2" /\ AddDevice
    \/ Unregister(a)
    \/ a = "d1" /\ Publish

\* C29: a Register, Sensors or Status event for device a, the removal of a
\* and a command published to a leave the record and the deques of every
\* other device b as they were: a step that changes either for b is none
\* of these for a.
C29_OtherDevicesUntouched ==
    /\ [][\A a, b \in DeviceIds :
            (/\ a # b
             /\ \/ RecordOf(devices', b) # RecordOf(devices, b)
                \/ BuffersOf(device_data', b) # BuffersOf(device_data, b))
            => ~StepFor(a)]_vars
    /\ [](\A a, b \in DeviceIds :
            a # b
            => /\ \A status \in {"online", "offline", "rebooting"} :
                    RecordOf(update_device_status(devices, a, status, now).rows, b)
                       = RecordOf(devices, b)
               /\ RecordOf(register_device(devices, a, "Sensor A", "ESP32", "lab",
                                           {}, now).rows, b)
                     = RecordOf(devices, b)
               /\ RecordOf(unregister_device(devices, a).rows, b) = RecordOf(devices, b)
               /\ BuffersOf(push_sample(device_data, a, 21, 40, now), b)
                     = BuffersOf(device_data, b))

\* C29 witness: d2 was swept offline long ago and d1 has since been heard,
\* buffered and commanded; d2's record still carries its old last_seen
C29_NeighbourKeptItsRecord ==
    /\ liveness["d2"] = "swept" /\ StatusOf(devices, "d2") = "offline"
    /\ SeenOf(devices, "d2") = 0
    /\ OnlineNow(devices, "d1", now)
    /\ now > 0
    /\ "d1" \in DOMAIN device_data
    /\ "d2" \notin DOMAIN device_data
    /\ published # <<>>

\* the rows with the columns update_device_status writes blanked
WithoutLiveness(rows) ==
    [i \in DOMAIN rows |-> [rows[i] EXCEPT !.status = "", !.last_seen = 0]]

\* the rows with the column check_device_heartbeats writes blanked
WithoutStatus(rows) == [i \in DOMAIN rows |-> [rows[i] EXCEPT !.status = ""]]

\* the step handles a Sensors or a Status event
Touches ==
    \E m \in Events : ~IsRegister(m) /\ on_message(m.topic, m.payload)

\* C30: update_device_status writes no column but status and last_seen,
\* and those of the named record only if there is one; check_device_heartbeats
\* writes no column but status; neither adds or deletes a row; a Status
\* event and a sweep leave every telemetry buffer as it was.
C30_OnlyLivenessColumns ==
    /\ [](\A d \in DeviceIds \cup {None} :
            \A status \in {"online", "offline", "rebooting"} :
                LET r == update_device_status(devices, d, status, now).rows
                IN  /\ WithoutLiveness(r) = WithoutLiveness(devices)
                    /\ \A i \in DOMAIN devices :
                          ~SqlEq(devices[i].device_id, d) => r[i] = devices[i])
    /\ [](WithoutStatus(check_device_heartbeats(devices, HEARTBEAT_TIMEOUT, now).rows)
             = WithoutStatus(devices))
    /\ [][WithoutLiveness(devices') # WithoutLiveness(devices)
          => ~(Touches \/ heartbeat_checker)]_vars
    /\ [][WithoutStatus(devices') # WithoutStatus(devices) => ~heartbeat_checker]_vars
    /\ [][device_data' # device_data
          => ~(heartbeat_checker
               \/ \E m \in Events : IsStatus(m) /\ on_message(m.topic, m.payload))]_vars

\* C30 witness: d1 was registered with its capabilities and later touched,
\* d2 was swept offline; both still carry what they were registered with,
\* d2 its first last_seen, and d1's reading is in its buffer
C30_TouchedAndSweptKeepColumns ==
    /\ liveness["d2"] = "swept"
    /\ RecordOf(devices, "d2") # <<>>
    /\ RowOf(devices, "d2").device_name = "Sensor B"
    /\ RowOf(devices, "d2").last_seen = RowOf(devices, "d2").registered_at
    /\ RecordOf(devices, "d1") # <<>>
    /\ RowOf(devices, "d1").last_seen > RowOf(devices, "d1").registered_at
    /\ RowOf(devices, "d1").capabilities = {"temperature"}
    /\ RowOf(devices, "d1").location = "lab"
    /\ Len(read_buffers(device_data, "d1").temps) = 1

====
